---- MODULE Spec2Model ----
(***************************************************************************)
(* Model of the byteplug validator: the schema validator (specs.py) and    *)
(* the document validator/converter (document.py), and the builder classes *)
(* that produce a schema (types.py).                                       *)
(*                                                                         *)
(* Python values are tagged records:                                       *)
(*   None  [t |-> "none"]            bool  [t |-> "bool",  b |-> TRUE]     *)
(*   int   [t |-> "int", i |-> 3]    float [t |-> "float", h |-> 3]        *)
(*   str   [t |-> "str", s |-> "a"]  list  [t |-> "list",  items |-> <<>>] *)
(*   tuple [t |-> "tuple", items |-> <<>>]                                 *)
(*   dict  [t |-> "dict", kv |-> << <<key, value>>, ... >>]                *)
(* A float holds its value in halves (h = 3 is 1.5), so that non-integral  *)
(* numbers, their comparisons and int() truncation are exact.  A dict      *)
(* keeps its pairs in insertion order, as Python's dict does.              *)
(***************************************************************************)
EXTENDS Integers, Sequences, FiniteSets, TLC

VARIABLES call, builder, specs, document, hashseed, pc, vlazy, vfast, dlazy, dfast, again

vars == <<call, builder, specs, document, hashseed, pc, vlazy, vfast, dlazy, dfast, again>>

(***************************************************************************)
(* Python values                                                           *)
(***************************************************************************)
PyNone == [t |-> "none"]
PyBool(b) == [t |-> "bool", b |-> b]
PyInt(n) == [t |-> "int", i |-> n]
PyFloat(h) == [t |-> "float", h |-> h]
PyStr(s) == [t |-> "str", s |-> s]
PyList(xs) == [t |-> "list", items |-> xs]
PyTuple(xs) == [t |-> "tuple", items |-> xs]
PyDict(kv) == [t |-> "dict", kv |-> kv]

\* type(v) in (int, float): a bool is neither.
IsNumber(v) == v.t \in {"int", "float"}

\* bool(v)
Truthy(v) ==
    CASE v.t = "none" -> FALSE
      [] v.t = "bool" -> v.b
      [] v.t = "int" -> v.i # 0
      [] v.t = "float" -> v.h # 0
      [] v.t = "str" -> v.s # ""
      [] v.t \in {"list", "tuple"} -> v.items # <<>>
      [] v.t = "dict" -> v.kv # <<>>

\* set(d.keys())
Keys(d) == {d.kv[i][1] : i \in 1..Len(d.kv)}

\* key in d
Has(d, k) == \E i \in 1..Len(d.kv) : d.kv[i][1] = k

\* d[k]
Item(d, k) == d.kv[CHOOSE i \in 1..Len(d.kv) : d.kv[i][1] = k][2]

\* d.get(k)
Get(d, k) == IF Has(d, k) THEN Item(d, k) ELSE PyNone

\* d.get(k, default)
GetOr(d, k, default) == IF Has(d, k) THEN Item(d, k) ELSE default

\* The numeric value of an int, float or bool, in halves.
Halves(v) ==
    CASE v.t = "int" -> 2 * v.i
      [] v.t = "float" -> v.h
      [] v.t = "bool" -> IF v.b THEN 2 ELSE 0

\* The characters of the strings the model draws from (TLC cannot index a
\* string); a string outside the table has no characters the model can read.
Chars(s) ==
    CASE s = "" -> <<>>
      [] s = "a" -> <<"a">>
      [] s = "b" -> <<"b">>
      [] s = "ab" -> <<"a", "b">>
      [] s = "abc" -> <<"a", "b", "c">>
      [] s = "a-b" -> <<"a", "-", "b">>
      [] s = "a-" -> <<"a", "-">>
      [] s = "A" -> <<"A">>
      [] s = "x" -> <<"x">>
      [] s = "y" -> <<"y">>

\* The code points' order among the characters of the table.
CharRank(c) ==
    CASE c = "-" -> 0
      [] c = "A" -> 1
      [] c = "a" -> 2
      [] c = "b" -> 3
      [] c = "c" -> 4
      [] c = "x" -> 5
      [] c = "y" -> 6

RECURSIVE SeqLess(_, _)
SeqLess(a, b) ==
    IF b = <<>> THEN FALSE
    ELSE IF a = <<>> THEN TRUE
    ELSE IF Head(a) = Head(b) THEN SeqLess(Tail(a), Tail(b))
    ELSE CharRank(Head(a)) < CharRank(Head(b))

\* a < b is defined between numbers (bools included) and between strings;
\* any other pair of the model's values raises TypeError.
Orderable(a, b) ==
    \/ a.t \in {"int", "float", "bool"} /\ b.t \in {"int", "float", "bool"}
    \/ a.t = "str" /\ b.t = "str"

\* a < b, where Orderable(a, b).
Less(a, b) ==
    IF a.t = "str" THEN SeqLess(Chars(a.s), Chars(b.s))
    ELSE Halves(a) < Halves(b)

\* re.match(r"^[a-z]+(-[a-z]+)*$", s), on the characters of s.
Lower == {"a", "b", "c", "x", "y"}

RECURSIVE MatchGroups(_)
MatchGroups(cs) ==
    \* cs follows a run [a-z]+ : either the end, or "-" and another run
    IF cs = <<>> THEN TRUE
    ELSE IF Head(cs) \in Lower THEN MatchGroups(Tail(cs))
    ELSE /\ Head(cs) = "-"
         /\ Len(cs) >= 2
         /\ cs[2] \in Lower
         /\ MatchGroups(Tail(Tail(cs)))

IsIdentifier(s) ==
    LET cs == Chars(s) IN cs # <<>> /\ Head(cs) \in Lower /\ MatchGroups(Tail(cs))

\* re.match(pattern, s) for a pattern without metacharacters: s starts with it.
ReMatch(pattern, s) ==
    LET p == Chars(pattern)
        cs == Chars(s)
    IN Len(p) <= Len(cs) /\ SubSeq(cs, 1, Len(p)) = p

(***************************************************************************)
(* Diagnostics and the state threaded through a walk: the two lists the    *)
(* walk appends to, and the exception in flight, if any.                   *)
(***************************************************************************)
ValidationError(path, message) ==
    [cls |-> "ValidationError", path |-> path, message |-> message]

ValidationWarning(path, message) ==
    [cls |-> "ValidationWarning", path |-> path, message |-> message]

ValueError(path, message) ==
    [cls |-> "ValueError", path |-> path, message |-> message]

TypeError == [cls |-> "TypeError", path |-> "", message |-> ""]

AttributeError == [cls |-> "AttributeError", path |-> "", message |-> ""]

NoException == [cls |-> "", path |-> "", message |-> ""]

Empty(seed) == [errors |-> <<>>, warnings |-> <<>>, exc |-> NoException, seed |-> seed]

Raised(st) == st.exc # NoException

\* errors.append(error)
AddError(st, error) == [st EXCEPT !.errors = Append(@, error)]

\* warnings.append(warning)
AddWarning(st, warning) == [st EXCEPT !.warnings = Append(@, warning)]

\* raise exc
Raise(st, exc) == [st EXCEPT !.exc = exc]

\* extra_properties.pop(): a set hands out its elements in hash order, which
\* the interpreter's hash seed decides; the two seeds pick different elements
\* whenever the set has more than one.
Pop(S, seed) ==
    LET first == CHOOSE k \in S : TRUE
    IN IF seed = 0 \/ S = {first} THEN first ELSE CHOOSE k \in S : k # first

(***************************************************************************)
(* specs.py: the schema validator.  Every checker takes the walk state and *)
(* returns it with the diagnostics it appended; an exception that a line   *)
(* of the checker raises ends the checker and everything above it.         *)
(***************************************************************************)
Result(st, ret) == [st |-> st, ret |-> ret]

validate_minimum_or_maximum_property(name, path, value, st) ==
    IF IsNumber(value) THEN
        Result(st, PyTuple(<<PyBool(FALSE), value>>))
    ELSE IF value.t = "dict" THEN
        LET extra_properties == Keys(value) \ {"exclusive", "value"} IN
        IF extra_properties # {} THEN
            Result(AddError(st, ValidationError(path \o "." \o name,
                       "'" \o Pop(extra_properties, st.seed) \o "' property is unexpected")),
                   PyNone)
        ELSE
            LET exclusive == Get(value, "exclusive")
                notbool == Truthy(exclusive) /\ exclusive.t # "bool"
                st1 == IF notbool
                       THEN AddError(st, ValidationError(path \o "." \o name \o ".exclusive",
                                                         "value must be a bool"))
                       ELSE st
                exclusive1 == IF notbool THEN exclusive ELSE PyBool(FALSE)
                value_ == Get(value, "value")
                st2 == IF value_ = PyNone
                       THEN AddError(st1, ValidationError(path \o "." \o name,
                                                          "'value' property is missing"))
                       ELSE IF ~IsNumber(value_)
                       THEN AddError(st1, ValidationError(path \o "." \o name \o ".value",
                                                          "value must be a number"))
                       ELSE st1
            IN Result(st2, PyTuple(<<exclusive1, value_>>))
    ELSE
        Result(AddError(st, ValidationError(path \o "." \o name,
                                            "value must be either a number or a dict")),
               PyNone)

\* The block the length checker runs for 'minimum' and again for 'maximum':
\* bound is value.get(name), path already ends in '.length'.
validate_length_bound(name, path, bound, st) ==
    IF Raised(st) \/ ~Truthy(bound) THEN st
    ELSE
        LET st1 == IF ~IsNumber(bound)
                   THEN AddError(st, ValidationError(path \o "." \o name, "value must be a number"))
                   ELSE st
            st2 == IF bound.t = "float"
                   THEN AddWarning(st1, ValidationWarning(path, "should be an integer (got float)"))
                   ELSE st1
        IN IF ~Orderable(bound, PyInt(0)) THEN Raise(st2, TypeError)
           ELSE IF Less(bound, PyInt(0))
           THEN AddError(st2, ValidationError(path \o "." \o name,
                                              "must be greater or equal to zero"))
           ELSE st2

\* if minimum != None and maximum != None: if minimum > maximum: error
validate_length_order(path, minimum, maximum, st) ==
    IF Raised(st) THEN st
    ELSE IF minimum # PyNone /\ maximum # PyNone THEN
        IF ~Orderable(maximum, minimum) THEN Raise(st, TypeError)
        ELSE IF Less(maximum, minimum)
        THEN AddError(st, ValidationError(path, "minimum must be lower than maximum"))
        ELSE st
    ELSE st

validate_length_property(path0, value, st) ==
    LET path == path0 \o ".length" IN
    IF IsNumber(value) THEN
        LET st1 == IF Less(value, PyInt(0))
                   THEN AddError(st, ValidationError(path, "must be greater or equal to zero"))
                   ELSE st
        IN IF value.t = "float"
           THEN AddWarning(st1, ValidationWarning(path, "should be an integer (got float)"))
           ELSE st1
    ELSE IF value.t = "dict" THEN
        LET extra_properties == Keys(value) \ {"minimum", "maximum"} IN
        IF extra_properties # {} THEN
            AddError(st, ValidationError(path,
                "'" \o Pop(extra_properties, st.seed) \o "' property is unexpected"))
        ELSE
            LET minimum == Get(value, "minimum")
                maximum == Get(value, "maximum")
            IN validate_length_order(path, minimum, maximum,
                   validate_length_bound("maximum", path, maximum,
                       validate_length_bound("minimum", path, minimum, st)))
    ELSE
        AddError(st, ValidationError(path, "value must be either a number or a dict"))

validate_flag_type(path, block, st) == st

\* The block the integer checker runs for 'minimum' and again for 'maximum'.
validate_integer_bound(name, path, block, st) ==
    IF Has(block, name) THEN
        LET r == validate_minimum_or_maximum_property(name, path, Item(block, name), st)
        IN IF r.ret # PyNone /\ r.ret.items[2].t = "float"
           THEN Result(AddWarning(r.st, ValidationWarning(path \o "." \o name,
                                                          "should be an integer (got float)")),
                       r.ret)
           ELSE r
    ELSE Result(st, PyNone)

\* if minimum and maximum: if maximum[1] < minimum[1]: error
validate_minimum_below_maximum(path, minimum, maximum, st) ==
    IF Truthy(minimum) /\ Truthy(maximum) THEN
        IF ~Orderable(maximum.items[2], minimum.items[2]) THEN Raise(st, TypeError)
        ELSE IF Less(maximum.items[2], minimum.items[2])
        THEN AddError(st, ValidationError(path, "minimum must be lower than maximum"))
        ELSE st
    ELSE st

validate_integer_type(path, block, st) ==
    LET minimum == validate_integer_bound("minimum", path, block, st)
        maximum == validate_integer_bound("maximum", path, block, minimum.st)
    IN validate_minimum_below_maximum(path, minimum.ret, maximum.ret, maximum.st)

validate_decimal_type(path, block, st) ==
    LET minimum == IF Has(block, "minimum")
                   THEN validate_minimum_or_maximum_property("minimum", path,
                                                             Item(block, "minimum"), st)
                   ELSE Result(st, PyNone)
        maximum == IF Has(block, "maximum")
                   THEN validate_minimum_or_maximum_property("maximum", path,
                                                             Item(block, "maximum"), minimum.st)
                   ELSE Result(minimum.st, PyNone)
    IN validate_minimum_below_maximum(path, minimum.ret, maximum.ret, maximum.st)

\* if 'length' in block: validate_length_property(path, block['length'], ...)
validate_length_if_present(path, block, st) ==
    IF Raised(st) \/ ~Has(block, "length") THEN st
    ELSE validate_length_property(path, Item(block, "length"), st)

\* The pattern check that ends validate_string_type.
validate_pattern(path, pattern, st) ==
    IF Raised(st) THEN st
    ELSE IF pattern # PyNone /\ pattern.t # "str"
    THEN AddError(st, ValidationError(path \o ".pattern", "value must be a string"))
    ELSE st

validate_string_type(path, block, st) ==
    validate_pattern(path, Get(block, "pattern"), validate_length_if_present(path, block, st))

\* Mutation of validate_enum_values: processed_values.append(value) is left
\* out, so that no value is ever found among the processed ones.
RECURSIVE validate_enum_values_unseen(_, _, _, _, _)
validate_enum_values_unseen(path, values, index, processed_values, st) ==
    IF index > Len(values) THEN st
    ELSE
        LET value == values[index] IN
        IF value.t # "str" THEN Raise(st, TypeError)
        ELSE IF ~IsIdentifier(value.s) THEN
            validate_enum_values_unseen(path, values, index + 1, processed_values,
                AddError(st, ValidationError(path \o ".values",
                                             "'" \o value.s \o "' is an incorrect value")))
        ELSE IF value.s \in processed_values THEN
            validate_enum_values_unseen(path, values, index + 1, processed_values,
                AddError(st, ValidationError(path \o ".values",
                                             "'" \o value.s \o "' value is duplicated")))
        ELSE
            validate_enum_values_unseen(path, values, index + 1, processed_values, st)

\* The loop over values: index counts from 1, processed_values is the list
\* of the identifiers seen.  re.match raises TypeError on a value that is
\* not a string.
RECURSIVE validate_enum_values(_, _, _, _, _)
validate_enum_values(path, values, index, processed_values, st) ==
    IF index > Len(values) THEN st
    ELSE
        LET value == values[index] IN
        IF value.t # "str" THEN Raise(st, TypeError)
        ELSE IF ~IsIdentifier(value.s) THEN
            validate_enum_values(path, values, index + 1, processed_values,
                AddError(st, ValidationError(path \o ".values",
                                             "'" \o value.s \o "' is an incorrect value")))
        ELSE IF value.s \in processed_values THEN
            validate_enum_values(path, values, index + 1, processed_values,
                AddError(st, ValidationError(path \o ".values",
                                             "'" \o value.s \o "' value is duplicated")))
        ELSE
            validate_enum_values(path, values, index + 1, processed_values \cup {value.s}, st)

validate_enum_type(path, block, st) ==
    LET values == Get(block, "values") IN
    IF values = PyNone THEN
        AddError(st, ValidationError(path, "'values' property is missing"))
    ELSE IF values.t # "list" THEN
        AddError(st, ValidationError(path \o ".values", "value must be a list"))
    ELSE IF Len(values.items) = 0 THEN
        AddError(st, ValidationError(path \o ".values", "must contain at least one value"))
    ELSE validate_enum_values(path, values.items, 1, {}, st)

Kinds == {"flag", "integer", "decimal", "string", "enum", "list", "tuple", "map"}

\* validators[type_][1]
Whitelist(type_) ==
    CASE type_ = "flag" -> {}
      [] type_ \in {"integer", "decimal"} -> {"minimum", "maximum"}
      [] type_ = "string" -> {"length", "pattern"}
      [] type_ = "enum" -> {"values"}
      [] type_ = "list" -> {"value", "length"}
      [] type_ = "tuple" -> {"values"}
      [] type_ = "map" -> {"fields"}

RECURSIVE validate_block(_, _, _)
RECURSIVE validate_tuple_values(_, _, _, _)
RECURSIVE validate_map_fields(_, _, _, _)

validate_list_type(path, block, st) ==
    LET value == Get(block, "value") IN
    IF ~Truthy(value) THEN
        AddError(st, ValidationError(path, "'value' property is missing"))
    ELSE
        validate_length_if_present(path, block, validate_block(path \o ".[]", value, st))

\* for (index, value) in enumerate(values): position counts from 1 here,
\* index = position - 1 is what the path shows.
validate_tuple_values(path, values, position, st) ==
    IF position > Len(values) \/ Raised(st) THEN st
    ELSE validate_tuple_values(path, values, position + 1,
             validate_block(path \o ".(" \o ToString(position - 1) \o ")",
                            values[position], st))

validate_tuple_type(path, block, st) ==
    LET values == Get(block, "values") IN
    IF values = PyNone THEN
        AddError(st, ValidationError(path, "'values' property is missing"))
    ELSE IF values.t # "list" THEN
        AddError(st, ValidationError(path \o ".values", "value must be a list"))
    ELSE IF Len(values.items) = 0 THEN
        AddError(st, ValidationError(path \o ".values", "must contain at least one value"))
    ELSE validate_tuple_values(path, values.items, 1, st)

\* for key, value in fields.items(), in insertion order.
validate_map_fields(path, kv, position, st) ==
    IF position > Len(kv) \/ Raised(st) THEN st
    ELSE
        LET key == kv[position][1]
            value == kv[position][2]
        IN IF ~IsIdentifier(key) THEN
               validate_map_fields(path, kv, position + 1,
                   AddError(st, ValidationError(path \o ".fields",
                                                "'" \o key \o "' is an incorrect key name")))
           ELSE validate_map_fields(path, kv, position + 1,
                                    validate_block(path \o "." \o key, value, st))

validate_map_type(path, block, st) ==
    LET fields == Get(block, "fields") IN
    IF fields = PyNone THEN
        AddError(st, ValidationError(path, "'fields' property is missing"))
    ELSE IF fields.t # "dict" THEN
        AddError(st, ValidationError(path \o ".fields", "value must be a dict"))
    ELSE IF Len(fields.kv) = 0 THEN
        AddError(st, ValidationError(path \o ".fields", "must contain at least one field"))
    ELSE validate_map_fields(path, fields.kv, 1, st)

\* validators[type_][0](path, block, errors, warnings)
validate_kind(type_, path, block, st) ==
    CASE type_ = "flag" -> validate_flag_type(path, block, st)
      [] type_ = "integer" -> validate_integer_type(path, block, st)
      [] type_ = "decimal" -> validate_decimal_type(path, block, st)
      [] type_ = "string" -> validate_string_type(path, block, st)
      [] type_ = "enum" -> validate_enum_type(path, block, st)
      [] type_ = "list" -> validate_list_type(path, block, st)
      [] type_ = "tuple" -> validate_tuple_type(path, block, st)
      [] type_ = "map" -> validate_map_type(path, block, st)

\* The first of the unexpected properties, if any, is reported.
validate_unexpected(path, block, type_, st) ==
    LET extra_properties == (Keys(block) \ Whitelist(type_)) \ {"type", "option"} IN
    IF extra_properties # {}
    THEN AddError(st, ValidationError(path,
             "'" \o Pop(extra_properties, st.seed) \o "' property is unexpected"))
    ELSE st

\* The 'option' check that ends validate_block.
validate_option(path, block, st) ==
    IF Raised(st) THEN st
    ELSE IF Has(block, "option") /\ Item(block, "option").t # "bool"
    THEN AddError(st, ValidationError(path \o ".option", "value must be a bool"))
    ELSE st

validate_block(path, block, st) ==
    IF block.t # "dict" THEN
        AddError(st, ValidationError(path, "value must be a dict"))
    ELSE
        LET type_ == Get(block, "type") IN
        IF ~Truthy(type_) THEN
            AddError(st, ValidationError(path, "'type' property is missing"))
        ELSE IF type_.t \in {"list", "dict"} THEN
            \* an unhashable value cannot be looked up among the keys
            Raise(st, TypeError)
        ELSE IF ~(type_.t = "str" /\ type_.s \in Kinds) THEN
            AddError(st, ValidationError(path, "value of 'type' is incorrect"))
        ELSE
            validate_option(path, block,
                validate_kind(type_.s, path, block,
                    validate_unexpected(path, block, type_.s, st)))

validate_root_block(block, st) ==
    IF block.t # "dict"
    THEN AddError(st, ValidationError("root", "root value must be a dict"))
    ELSE validate_block("root", block, st)

\* What a call ends with: the exception it raised, if any, the two lists as
\* the call left them, and the value returned.
Outcome(st, raised, value) ==
    [raised |-> raised, errors |-> st.errors, warnings |-> st.warnings, value |-> value]

\* validate_specs(specs) when lazy_validation is FALSE,
\* validate_specs(specs, errors=[], warnings=[]) when it is TRUE.
validate_specs(specs_, lazy_validation, seed) ==
    LET st == validate_root_block(specs_, Empty(seed)) IN
    IF Raised(st) THEN Outcome(st, st.exc, PyNone)
    ELSE IF ~lazy_validation /\ Len(st.errors) > 0 THEN Outcome(st, st.errors[1], PyNone)
    ELSE Outcome(st, NoException, PyNone)

(***************************************************************************)
(* utils.py is not among the sources: read_minimum_value and               *)
(* read_maximum_value are modelled from the data model of the              *)
(* specification (a bound is a bare number, inclusive, or a pair of        *)
(* 'exclusive' and 'value'), and return what process_integer_node unpacks: *)
(* None without the bound, else the tuple (is_exclusive, value).           *)
(***************************************************************************)
read_bound_value(specs_, name) ==
    LET bound == Get(specs_, name) IN
    IF bound = PyNone THEN PyNone
    ELSE IF IsNumber(bound) THEN PyTuple(<<PyBool(FALSE), bound>>)
    ELSE PyTuple(<<GetOr(bound, "exclusive", PyBool(FALSE)), Get(bound, "value")>>)

read_minimum_value(specs_) == read_bound_value(specs_, "minimum")

read_maximum_value(specs_) == read_bound_value(specs_, "maximum")

(***************************************************************************)
(* document.py: the document validator/converter.  A process_<kind>_node   *)
(* returns the walk state and the adjusted node (None after an error).     *)
(***************************************************************************)
\* int(node): truncation towards zero.
IntOf(node) ==
    IF node.t = "int" THEN node
    ELSE IF node.h >= 0 THEN PyInt(node.h \div 2) ELSE PyInt(-((-node.h) \div 2))

process_flag_node(path, node, specs_, st) ==
    IF node.t # "bool"
    THEN Result(AddError(st, ValidationError(path, "was expecting a JSON boolean")), PyNone)
    ELSE Result(st, node)

\* Mutation of integer_minimum_error: '>' where the inclusive branch has '>='.
integer_minimum_error_strict(node, minimum) ==
    IF Truthy(minimum) THEN
        IF ~Less(minimum.items[2], node) THEN "value must be strictly greater than X" ELSE ""
    ELSE ""

\* The minimum half of process_integer_node: "" when the node passes, else
\* the message of the error.
integer_minimum_error(node, minimum) ==
    IF Truthy(minimum) THEN
        LET is_exclusive == minimum.items[1]
            value == minimum.items[2]
        IN IF Truthy(is_exclusive)
           THEN IF ~Less(value, node) THEN "value must be strictly greater than X" ELSE ""
           ELSE IF Less(node, value) THEN "value must be equal or greater than X" ELSE ""
    ELSE ""

integer_maximum_error(node, maximum) ==
    IF Truthy(maximum) THEN
        LET is_exclusive == maximum.items[1]
            value == maximum.items[2]
        IN IF Truthy(is_exclusive)
           THEN IF ~Less(node, value) THEN "value must be strictly less than X" ELSE ""
           ELSE IF Less(value, node) THEN "value must be equal or less than X" ELSE ""
    ELSE ""

process_integer_node(path, node, specs_, st) ==
    IF ~IsNumber(node) THEN
        Result(AddError(st, ValidationError(path, "was expecting a JSON number")), PyNone)
    ELSE
        LET minimum == read_minimum_value(specs_)
            maximum == read_maximum_value(specs_)
            low == integer_minimum_error(node, minimum)
            high == integer_maximum_error(node, maximum)
        IN IF low # "" THEN Result(AddError(st, ValidationError(path, low)), PyNone)
           ELSE IF high # "" THEN Result(AddError(st, ValidationError(path, high)), PyNone)
           ELSE Result(st, IntOf(node))

process_decimal_node(path, node, specs_, st) == Result(st, PyNone)

\* The length checks process_string_node and process_list_node share, what
\* being "string" or "list": the state after them, and whether the node
\* returned early.  length.get on a length that is neither an int nor a dict
\* raises AttributeError.
check_length(what, path, size, length, st) ==
    IF length = PyNone THEN [st |-> st, done |-> FALSE]
    ELSE IF length.t = "int" THEN
        IF size # length.i
        THEN [st |-> AddError(st, ValidationError(path,
                         "length of " \o what \o " must be equal to X")),
              done |-> TRUE]
        ELSE [st |-> st, done |-> FALSE]
    ELSE IF length.t # "dict" THEN [st |-> Raise(st, AttributeError), done |-> TRUE]
    ELSE
        LET minimum == Get(length, "minimum")
            maximum == Get(length, "maximum")
        IN IF Truthy(minimum) /\ ~Orderable(PyInt(size), minimum)
           THEN [st |-> Raise(st, TypeError), done |-> TRUE]
           ELSE IF Truthy(minimum) /\ Less(PyInt(size), minimum)
           THEN [st |-> AddError(st, ValidationError(path,
                            "length of " \o what \o " must be greater or equal to X")),
                 done |-> TRUE]
           ELSE IF Truthy(maximum) /\ ~Orderable(PyInt(size), maximum)
           THEN [st |-> Raise(st, TypeError), done |-> TRUE]
           ELSE IF Truthy(maximum) /\ Less(maximum, PyInt(size))
           THEN [st |-> AddError(st, ValidationError(path,
                            "length of " \o what \o " must be lower or equal to X")),
                 done |-> TRUE]
           ELSE [st |-> st, done |-> FALSE]

process_string_node(path, node, specs_, st) ==
    IF node.t # "str" THEN
        Result(Raise(st, ValidationError(path, "was expecting a JSON string")), PyNone)
    ELSE
        LET c == check_length("string", path, Len(node.s), Get(specs_, "length"), st)
            pattern == Get(specs_, "pattern")
        IN IF c.done THEN Result(c.st, PyNone)
           ELSE IF pattern # PyNone /\ ~ReMatch(pattern.s, node.s)
           THEN Result(Raise(c.st, ValidationError(path, "didnt match pattern")), PyNone)
           ELSE Result(c.st, node)

process_enum_node(path, node, specs_, st) ==
    IF node.t # "str" THEN
        Result(AddError(st, ValidationError(path, "was expecting a JSON string")), PyNone)
    ELSE IF node \notin {Item(specs_, "values").items[i] :
                           i \in 1..Len(Item(specs_, "values").items)} THEN
        Result(AddError(st, ValidationError(path,
                   "value was expected to be one of [foo, bar, quz]")), PyNone)
    ELSE Result(st, node)

RECURSIVE adjust_node(_, _, _, _)
RECURSIVE adjust_list_items(_, _, _, _, _, _)
RECURSIVE adjust_tuple_items(_, _, _, _, _, _)
RECURSIVE adjust_map_fields(_, _, _, _, _, _)

\* for (index, item) in enumerate(node): adjusted_node.append(adjust_node(...))
adjust_list_items(path, items, value, position, adjusted_node, st) ==
    IF position > Len(items) \/ Raised(st) THEN Result(st, adjusted_node)
    ELSE
        LET r == adjust_node(path \o ".[" \o ToString(position - 1) \o "]",
                             items[position], value, st)
        IN adjust_list_items(path, items, value, position + 1,
                             Append(adjusted_node, r.ret), r.st)

process_list_node(path, node, specs_, st) ==
    LET value == Item(specs_, "value") IN
    IF node.t # "list" THEN
        Result(AddError(st, ValidationError(path, "was expecting a JSON array")), PyNone)
    ELSE
        LET c == check_length("list", path, Len(node.items), Get(specs_, "length"), st) IN
        IF c.done THEN Result(c.st, PyNone)
        ELSE
            LET r == adjust_list_items(path, node.items, value, 1, <<>>, c.st)
            IN Result(r.st, PyList(r.ret))

adjust_tuple_items(path, items, values, position, adjusted_node, st) ==
    IF position > Len(items) \/ Raised(st) THEN Result(st, adjusted_node)
    ELSE
        LET r == adjust_node(path \o ".(" \o ToString(position - 1) \o ")",
                             items[position], values[position], st)
        IN adjust_tuple_items(path, items, values, position + 1,
                              Append(adjusted_node, r.ret), r.st)

process_tuple_node(path, node, specs_, st) ==
    LET values == Item(specs_, "values").items IN
    IF node.t # "list" THEN
        Result(AddError(st, ValidationError(path, "was expecting a JSON array")), PyNone)
    ELSE IF Len(node.items) # Len(values) THEN
        Result(AddError(st, ValidationError(path, "was expecting array of N elements")), PyNone)
    ELSE
        LET r == adjust_tuple_items(path, node.items, values, 1, <<>>, st)
        IN Result(r.st, PyTuple(r.ret))

\* for key, value in fields.items(): if key in node: adjusted_node[key] = ...
adjust_map_fields(path, node, kv, position, adjusted_node, st) ==
    IF position > Len(kv) \/ Raised(st) THEN Result(st, adjusted_node)
    ELSE
        LET key == kv[position][1]
            value == kv[position][2]
        IN IF Has(node, key) THEN
               LET r == adjust_node(path \o "." \o key, Item(node, key), value, st)
               IN adjust_map_fields(path, node, kv, position + 1,
                                    Append(adjusted_node, <<key, r.ret>>), r.st)
           ELSE adjust_map_fields(path, node, kv, position + 1, adjusted_node, st)

\* Mutation of process_map_node: the undeclared fields of the document are
\* copied into the adjusted mapping.
process_map_node_keeping(path, node, specs_, st) ==
    LET fields == Item(specs_, "fields") IN
    IF node.t # "dict" THEN
        Result(AddError(st, ValidationError(path, "was expecting a JSON object")), PyNone)
    ELSE
        LET r == adjust_map_fields(path, node, fields.kv, 1, <<>>, st)
        IN Result(r.st, PyDict(r.ret \o SelectSeq(node.kv, LAMBDA pair : ~Has(fields, pair[1]))))

process_map_node(path, node, specs_, st) ==
    LET fields == Item(specs_, "fields") IN
    IF node.t # "dict" THEN
        Result(AddError(st, ValidationError(path, "was expecting a JSON object")), PyNone)
    ELSE
        LET r == adjust_map_fields(path, node, fields.kv, 1, <<>>, st)
        IN Result(r.st, PyDict(r.ret))

\* adjust_node_map[specs['type']](path, node, specs, errors, warnings)
process_node(path, node, specs_, st) ==
    LET type_ == Item(specs_, "type").s IN
    CASE type_ = "flag" -> process_flag_node(path, node, specs_, st)
      [] type_ = "integer" -> process_integer_node(path, node, specs_, st)
      [] type_ = "decimal" -> process_decimal_node(path, node, specs_, st)
      [] type_ = "string" -> process_string_node(path, node, specs_, st)
      [] type_ = "enum" -> process_enum_node(path, node, specs_, st)
      [] type_ = "list" -> process_list_node(path, node, specs_, st)
      [] type_ = "tuple" -> process_tuple_node(path, node, specs_, st)
      [] type_ = "map" -> process_map_node(path, node, specs_, st)

adjust_node(path, node, specs_, st) ==
    LET optional == GetOr(specs_, "option", PyBool(FALSE)) IN
    IF ~Truthy(optional) /\ node = PyNone THEN
        Result(AddError(st, ValueError(path, "value cant be null")), PyNone)
    ELSE IF Truthy(optional) /\ node = PyNone THEN Result(st, PyNone)
    ELSE process_node(path, node, specs_, st)

\* object = json.loads(document): document stands for the decoded value.
\* document_to_object(document, specs) when lazy_validation is FALSE,
\* document_to_object(document, specs, errors=[], warnings=[]) when TRUE.
document_to_object(document_, specs_, lazy_validation, seed) ==
    LET r == adjust_node("root", document_, specs_, Empty(seed)) IN
    IF Raised(r.st) THEN Outcome(r.st, r.st.exc, PyNone)
    ELSE IF ~lazy_validation /\ Len(r.st.errors) > 0
    THEN Outcome(r.st, r.st.errors[1], PyNone)
    ELSE Outcome(r.st, NoException, r.ret)

\* json.loads(json.dumps(value)): a tuple is written as an array and read
\* back as a list; None is null; every other value reads back as itself.
RECURSIVE JsonValue(_)
JsonValue(value) ==
    CASE value.t \in {"list", "tuple"} ->
             PyList([i \in 1..Len(value.items) |-> JsonValue(value.items[i])])
      [] value.t = "dict" ->
             PyDict([i \in 1..Len(value.kv) |-> <<value.kv[i][1], JsonValue(value.kv[i][2])>>])
      [] OTHER -> value

(***************************************************************************)
(* types.py: the builder classes.  A constructor returns the object it     *)
(* built, or raises the AssertionError of the assert that failed; an       *)
(* object is a record of its class and attributes; to_object gives the     *)
(* schema, a dict whose keys are in the order the method sets them.        *)
(***************************************************************************)
\* {'type': type_, ...}
Block(type_, kv) == PyDict(<<<<"type", PyStr(type_)>>>> \o kv)

AssertionError(message) == [cls |-> "AssertionError", path |-> "", message |-> message]

NoObject == [cls |-> ""]

Constructed(object) == [raised |-> NoException, object |-> object]

Failed(message) == [raised |-> AssertionError(message), object |-> NoObject]

\* isinstance(value, Type)
IsType(value) == "cls" \in DOMAIN value

\* object[key] = value, for a key the dict does not hold yet.
SetItem(object, key, value) == PyDict(Append(object.kv, <<key, value>>))

\* Type.update_object
update_object(self, object) ==
    IF Truthy(self.option) THEN SetItem(object, "option", PyBool(TRUE)) ELSE object

\* The asserts of Integer.__init__ on min, and again on max (name is "min"
\* or "max"): the message of the assert that fails, "" when none does.
integer_bound_assert(name, bound) ==
    IF ~Truthy(bound) THEN ""
    ELSE IF bound.t \notin {"int", "tuple"} THEN name \o " value is invalid"
    ELSE IF bound.t = "tuple" /\ (bound.items[1].t # "int" \/ bound.items[2].t # "bool")
    THEN name \o " value in invalid"
    ELSE ""

\* The asserts of String.__init__ and List.__init__ on length.
length_assert(length) ==
    IF ~Truthy(length) THEN ""
    ELSE IF length.t \notin {"int", "tuple"} THEN "length value is invalid"
    ELSE IF /\ length.t = "tuple"
            /\ \/ length.items[1] # PyNone /\ length.items[1].t # "int"
               \/ length.items[2] # PyNone /\ length.items[2].t # "int"
    THEN "length value in invalid"
    ELSE ""

Flag(option) == Constructed([cls |-> "Flag", option |-> option])

Integer(min, max, option) ==
    IF integer_bound_assert("min", min) # "" THEN Failed(integer_bound_assert("min", min))
    ELSE IF integer_bound_assert("max", max) # "" THEN Failed(integer_bound_assert("max", max))
    ELSE Constructed([cls |-> "Integer", minimum |-> min, maximum |-> max,
                      option |-> option])

String(length, pattern, option) ==
    IF length_assert(length) # "" THEN Failed(length_assert(length))
    ELSE Constructed([cls |-> "String", length |-> length, pattern |-> pattern,
                      option |-> option])

Enum(values, option) == Constructed([cls |-> "Enum", values |-> values, option |-> option])

List(value, length, option) ==
    IF ~IsType(value) THEN Failed("value type is invalid")
    ELSE IF length_assert(length) # "" THEN Failed(length_assert(length))
    ELSE Constructed([cls |-> "List", value |-> value, length |-> length,
                      option |-> option])

Tuple(values, option) ==
    IF values.t \notin {"list", "tuple"} THEN Failed("values type is invalid")
    ELSE IF \E i \in 1..Len(values.items) : ~IsType(values.items[i])
    THEN Failed("one of the value is invalid")
    ELSE Constructed([cls |-> "Tuple", values |-> values, option |-> option])

Map(fields, option) ==
    IF fields.t # "dict" THEN Failed("fields type is invalid")
    ELSE IF \E i \in 1..Len(fields.kv) : ~IsType(fields.kv[i][2])
    THEN Failed("one of the value is invalid")
    ELSE Constructed([cls |-> "Map", fields |-> fields, option |-> option])

Flag_to_object(self) == update_object(self, Block("flag", <<>>))

\* The block Integer.to_object runs for self.minimum and again for
\* self.maximum.
integer_bound_to_object(name, bound, object) ==
    IF Truthy(bound) THEN
        IF bound.t = "int" THEN SetItem(object, name, bound)
        ELSE SetItem(object, name,
                     PyDict(<<<<"exclusive", bound.items[2]>>, <<"value", bound.items[1]>>>>))
    ELSE object

Integer_to_object(self) ==
    update_object(self,
        integer_bound_to_object("maximum", self.maximum,
            integer_bound_to_object("minimum", self.minimum, Block("integer", <<>>))))

\* The block String.to_object and List.to_object run for self.length.
length_to_object(length, object) ==
    IF Truthy(length) THEN
        IF length.t = "int" THEN SetItem(object, "length", length)
        ELSE SetItem(object, "length",
                     PyDict((IF length.items[1] # PyNone
                             THEN <<<<"minimum", length.items[1]>>>> ELSE <<>>)
                            \o (IF length.items[2] # PyNone
                                THEN <<<<"maximum", length.items[2]>>>> ELSE <<>>)))
    ELSE object

String_to_object(self) ==
    LET object == length_to_object(self.length, Block("string", <<>>)) IN
    update_object(self,
        IF Truthy(self.pattern) THEN SetItem(object, "pattern", self.pattern) ELSE object)

Enum_to_object(self) ==
    update_object(self, Block("enum", <<<<"values", PyList(self.values.items)>>>>))

RECURSIVE to_object(_)

List_to_object(self) ==
    update_object(self,
        length_to_object(self.length, Block("list", <<<<"value", to_object(self.value)>>>>)))

Tuple_to_object(self) ==
    update_object(self,
        Block("tuple", <<<<"values",
            PyList([i \in 1..Len(self.values.items) |-> to_object(self.values.items[i])])>>>>))

Map_to_object(self) ==
    update_object(self,
        Block("map", <<<<"fields",
            PyDict([i \in 1..Len(self.fields.kv) |->
                        <<self.fields.kv[i][1], to_object(self.fields.kv[i][2])>>])>>>>))

\* self.to_object(), by the class of self.
to_object(self) ==
    CASE self.cls = "Flag" -> Flag_to_object(self)
      [] self.cls = "Integer" -> Integer_to_object(self)
      [] self.cls = "String" -> String_to_object(self)
      [] self.cls = "Enum" -> Enum_to_object(self)
      [] self.cls = "List" -> List_to_object(self)
      [] self.cls = "Tuple" -> Tuple_to_object(self)
      [] self.cls = "Map" -> Map_to_object(self)

\* A call of a constructor, and the constructor run on it.
Call(cls, args) == [cls |-> cls, args |-> args]

NoCall == Call("", <<>>)

Instantiate(c) ==
    CASE c.cls = "Flag" -> Flag(c.args[1])
      [] c.cls = "Integer" -> Integer(c.args[1], c.args[2], c.args[3])
      [] c.cls = "String" -> String(c.args[1], c.args[2], c.args[3])
      [] c.cls = "Enum" -> Enum(c.args[1], c.args[2])
      [] c.cls = "List" -> List(c.args[1], c.args[2], c.args[3])
      [] c.cls = "Tuple" -> Tuple(c.args[1], c.args[2])
      [] c.cls = "Map" -> Map(c.args[1], c.args[2])

(***************************************************************************)
(* The inputs.  Schemas holds well-formed and malformed schema values of    *)
(* every kind; Documents holds decoded JSON values (no tuple: JSON has     *)
(* none).                                                                  *)
(***************************************************************************)
\* Numbers in a schema run up to MaxNum, a document list holds at most
\* MaxItems items.
MaxNum == 2
MaxItems == 2

\* The 'values' of an enum hold at most MaxValues elements.
MaxValues == 3

RECURSIVE SeqsUpTo(_, _)
SeqsUpTo(S, n) ==
    IF n = 0 THEN {<<>>}
    ELSE LET shorter == SeqsUpTo(S, n - 1)
         IN shorter \cup {Append(q, x) : q \in {r \in shorter : Len(r) = n - 1}, x \in S}

SchemaInts == {PyInt(n) : n \in 0..MaxNum}

\* What a schema gives as the 'minimum' or 'maximum' of an integer.
GoodBounds ==
    SchemaInts \cup {PyInt(-1), PyFloat(3), PyFloat(-3)}
    \cup {PyDict(<<<<"value", v>>>>) : v \in SchemaInts}
    \cup {PyDict(<<<<"exclusive", PyBool(e)>>, <<"value", v>>>>) :
              e \in BOOLEAN, v \in SchemaInts}
    \cup {PyDict(<<<<"exclusive", PyInt(0)>>, <<"value", PyInt(1)>>>>),
          PyDict(<<<<"exclusive", PyStr("")>>, <<"value", PyFloat(3)>>>>)}

BadBounds ==
    {PyDict(<<<<"exclusive", PyBool(TRUE)>>>>),
     PyDict(<<<<"value", PyStr("a")>>>>),
     PyDict(<<<<"value", PyInt(1)>>, <<"x", PyInt(1)>>>>),
     PyDict(<<<<"value", PyInt(1)>>, <<"x", PyInt(1)>>, <<"y", PyInt(1)>>>>),
     PyDict(<<<<"exclusive", PyStr("a")>>, <<"value", PyInt(1)>>>>),
     PyStr("a")}

Bounds == GoodBounds \cup BadBounds

NumberSchemas(type_) ==
    {Block(type_, <<>>),
     Block(type_, <<<<"option", PyBool(TRUE)>>>>),
     Block(type_, <<<<"minimum", PyInt(1)>>, <<"option", PyBool(TRUE)>>>>)}
    \cup {Block(type_, <<<<"minimum", m>>>>) : m \in Bounds}
    \cup {Block(type_, <<<<"maximum", m>>>>) : m \in Bounds}
    \cup {Block(type_, <<<<"minimum", lo>>, <<"maximum", hi>>>>) :
              lo \in Bounds, hi \in SchemaInts \cup BadBounds}
    \cup {Block(type_, <<<<"minimum", lo>>, <<"maximum", hi>>>>) :
              lo \in SchemaInts, hi \in GoodBounds}

\* What a schema gives as the 'length' of a string or a list.
Lengths ==
    SchemaInts \cup {PyInt(-1), PyFloat(4), PyStr("a"), PyDict(<<>>)}
    \cup {PyDict(<<<<"minimum", v>>>>) : v \in SchemaInts \cup {PyStr("a"), PyFloat(3)}}
    \cup {PyDict(<<<<"maximum", v>>>>) : v \in SchemaInts \cup {PyStr("a"), PyInt(-1)}}
    \cup {PyDict(<<<<"minimum", lo>>, <<"maximum", hi>>>>) :
              lo \in SchemaInts \cup {PyStr("")}, hi \in SchemaInts}
    \cup {PyDict(<<<<"minimum", PyInt(1)>>, <<"x", PyInt(1)>>>>)}

StringSchemas ==
    {Block("string", <<>>),
     Block("string", <<<<"pattern", PyStr("a")>>>>),
     Block("string", <<<<"pattern", PyInt(1)>>>>),
     Block("string", <<<<"length", PyInt(2)>>, <<"pattern", PyStr("ab")>>>>),
     Block("string", <<<<"option", PyBool(TRUE)>>>>)}
    \cup {Block("string", <<<<"length", l>>>>) : l \in Lengths}

\* The strings the 'values' of an enum are drawn from: identifiers, and
\* strings that are none.
EnumNames == {PyStr("a"), PyStr("b"), PyStr("a-b"), PyStr("A"), PyStr("a-")}

EnumSchemas ==
    {Block("enum", <<>>),
     Block("enum", <<<<"values", PyStr("a")>>>>)}
    \cup {Block("enum", <<<<"values", PyList(vs)>>>>) :
              vs \in {<<>>, <<PyStr("a")>>, <<PyStr("a"), PyStr("b")>>,
                      <<PyStr("a"), PyStr("a")>>, <<PyStr("A")>>, <<PyStr("a-b")>>,
                      <<PyStr("a-")>>, <<PyStr("A"), PyStr("a"), PyStr("a")>>,
                      <<PyInt(1)>>, <<PyStr("A"), PyInt(1)>>}}
    \cup {Block("enum", <<<<"values", PyList(vs)>>>>) : vs \in SeqsUpTo(EnumNames, MaxValues)}

FlagSchemas ==
    {Block("flag", <<>>),
     Block("flag", <<<<"option", PyBool(TRUE)>>>>),
     Block("flag", <<<<"option", PyBool(FALSE)>>>>),
     Block("flag", <<<<"option", PyInt(1)>>>>),
     Block("flag", <<<<"pattern", PyStr("x")>>>>),
     Block("flag", <<<<"pattern", PyStr("x")>>, <<"length", PyInt(1)>>,
                     <<"option", PyStr("a")>>>>)}

\* Values that are no block of any kind.
NoBlocks ==
    {PyInt(1), PyNone, PyList(<<>>), PyStr("flag"),
     PyDict(<<>>),
     PyDict(<<<<"type", PyStr("")>>>>),
     PyDict(<<<<"type", PyStr("x")>>>>),
     PyDict(<<<<"type", PyInt(1)>>>>),
     PyDict(<<<<"type", PyList(<<PyStr("flag")>>)>>>>),
     PyDict(<<<<"option", PyBool(TRUE)>>>>)}

\* The blocks nested under a list, a tuple or a map.
Nested ==
    {Block("flag", <<>>),
     Block("flag", <<<<"option", PyBool(TRUE)>>>>),
     Block("integer", <<<<"minimum", PyInt(1)>>>>),
     Block("decimal", <<>>),
     Block("string", <<>>),
     Block("string", <<<<"length", PyInt(1)>>, <<"option", PyBool(TRUE)>>>>),
     Block("enum", <<<<"values", PyList(<<PyStr("a"), PyStr("b")>>)>>>>),
     Block("flag", <<<<"option", PyInt(1)>>>>),
     Block("enum", <<<<"values", PyList(<<PyInt(1)>>)>>>>),
     PyDict(<<<<"type", PyStr("x")>>>>),
     PyInt(1)}

Deeper ==
    {Block("list", <<<<"value", Block("flag", <<>>)>>>>),
     Block("tuple", <<<<"values", PyList(<<Block("flag", <<>>), Block("string", <<>>)>>)>>>>),
     Block("map", <<<<"fields", PyDict(<<<<"x", Block("string", <<>>)>>,
                                          <<"y", Block("flag", <<>>)>>>>)>>>>),
     Block("map", <<<<"fields", PyDict(<<<<"x", PyInt(1)>>>>)>>, <<"x", PyInt(1)>>>>)}

ListSchemas ==
    {Block("list", <<>>),
     Block("list", <<<<"value", PyDict(<<>>)>>>>),
     Block("list", <<<<"value", Block("flag", <<>>)>>, <<"option", PyBool(TRUE)>>>>)}
    \cup {Block("list", <<<<"value", v>>>>) : v \in Nested \cup Deeper}
    \cup {Block("list", <<<<"value", v>>, <<"length", l>>>>) :
              v \in {Block("flag", <<>>), PyInt(1)},
              l \in {PyInt(0), PyInt(1), PyFloat(4), PyStr("a"),
                     PyDict(<<<<"maximum", PyInt(0)>>>>),
                     PyDict(<<<<"minimum", PyInt(1)>>, <<"maximum", PyInt(MaxNum)>>>>),
                     PyDict(<<<<"minimum", PyStr("a")>>>>)}}

TupleSchemas ==
    {Block("tuple", <<>>),
     Block("tuple", <<<<"values", PyStr("a")>>>>),
     Block("tuple", <<<<"values", PyList(<<>>)>>>>)}
    \cup {Block("tuple", <<<<"values", PyList(<<a>>)>>>>) : a \in Nested \cup Deeper}
    \cup {Block("tuple", <<<<"values", PyList(<<a, b>>)>>>>) : a \in Nested, b \in Nested}

MapSchemas ==
    {Block("map", <<>>),
     Block("map", <<<<"fields", PyStr("a")>>>>),
     Block("map", <<<<"fields", PyDict(<<>>)>>>>),
     Block("map", <<<<"fields", PyDict(<<<<"A", PyInt(1)>>, <<"x", Block("flag", <<>>)>>>>)>>>>),
     Block("map", <<<<"fields", PyDict(<<<<"a-", Block("flag", <<>>)>>>>)>>>>)}
    \cup {Block("map", <<<<"fields", PyDict(<<<<"x", a>>>>)>>>>) : a \in Nested \cup Deeper}
    \cup {Block("map", <<<<"fields", PyDict(<<<<"x", a>>, <<"y", b>>>>)>>>>) :
              a \in Nested, b \in Nested}

Schemas ==
    NoBlocks \cup FlagSchemas \cup NumberSchemas("integer") \cup NumberSchemas("decimal")
    \cup StringSchemas \cup EnumSchemas \cup ListSchemas \cup TupleSchemas \cup MapSchemas

DocNumbers ==
    {PyInt(n) : n \in -1..(MaxNum + 1)} \cup {PyFloat(h) : h \in -3..(2 * MaxNum + 1)}

Scalars ==
    DocNumbers \cup {PyNone, PyBool(TRUE), PyBool(FALSE),
                     PyStr(""), PyStr("a"), PyStr("b"), PyStr("ab"), PyStr("abc")}

\* What a document list or object holds.
Items == {PyNone, PyBool(TRUE), PyInt(1), PyStr("a")}

DocLists == {PyList(q) : q \in SeqsUpTo(Items, MaxItems)}

DocObjects ==
    {PyDict(<<>>)}
    \cup {PyDict(<<<<k, v>>>>) : k \in {"x", "y", "b"}, v \in Items}
    \cup {PyDict(<<<<"x", v>>, <<k, w>>>>) : k \in {"y", "b"}, v \in Items, w \in Items}

Documents == Scalars \cup DocLists \cup DocObjects

\* What a caller passes as the min or max of Integer: nothing, a bare
\* integer or a pair of value and exclusivity; and two values the asserts
\* refuse.
BuilderBounds ==
    {PyNone, PyInt(0), PyInt(1)}
    \cup {PyTuple(<<PyInt(n), PyBool(e)>>) : n \in {0, 1}, e \in BOOLEAN}

RefusedBounds == {PyStr("a"), PyTuple(<<PyInt(1), PyInt(1)>>)}

\* What a caller passes as the length of String or List.
BuilderLengths ==
    {PyNone, PyInt(0), PyInt(1),
     PyTuple(<<PyInt(0), PyNone>>), PyTuple(<<PyNone, PyInt(0)>>),
     PyTuple(<<PyInt(1), PyInt(MaxNum)>>), PyTuple(<<PyNone, PyNone>>)}

RefusedLengths == {PyStr("a"), PyTuple(<<PyStr("a"), PyNone>>)}

\* The objects nested under a List, a Tuple or a Map.
BuilderValues ==
    {Flag(PyBool(FALSE)).object,
     Integer(PyInt(0), PyNone, PyBool(FALSE)).object,
     String(PyNone, PyNone, PyBool(TRUE)).object}

BuilderCalls ==
    {Call("Flag", <<PyBool(o)>>) : o \in BOOLEAN}
    \cup {Call("Integer", <<lo, hi, PyBool(o)>>) :
              lo \in BuilderBounds, hi \in BuilderBounds, o \in BOOLEAN}
    \cup {Call("Integer", <<lo, PyNone, PyBool(FALSE)>>) : lo \in RefusedBounds}
    \cup {Call("Integer", <<PyNone, hi, PyBool(FALSE)>>) : hi \in RefusedBounds}
    \cup {Call("String", <<l, p, PyBool(o)>>) :
              l \in BuilderLengths, p \in {PyNone, PyStr("a")}, o \in BOOLEAN}
    \cup {Call("String", <<l, PyNone, PyBool(FALSE)>>) : l \in RefusedLengths}
    \cup {Call("Enum", <<PyList(<<PyStr("a"), PyStr("b")>>), PyBool(o)>>) : o \in BOOLEAN}
    \cup {Call("List", <<v, l, PyBool(o)>>) :
              v \in BuilderValues, l \in BuilderLengths, o \in BOOLEAN}
    \cup {Call("List", <<Flag(PyBool(FALSE)).object, l, PyBool(FALSE)>>) :
              l \in RefusedLengths}
    \cup {Call("List", <<PyInt(1), PyNone, PyBool(FALSE)>>)}
    \cup {Call("Tuple", <<PyList(<<v, w>>), PyBool(FALSE)>>) :
              v \in BuilderValues, w \in BuilderValues \cup {PyInt(1)}}
    \cup {Call("Tuple", <<PyStr("a"), PyBool(FALSE)>>)}
    \cup {Call("Map", <<PyDict(<<<<"x", v>>>>), PyBool(o)>>) :
              v \in BuilderValues \cup {PyInt(1)}, o \in BOOLEAN}
    \cup {Call("Map", <<PyList(<<>>), PyBool(FALSE)>>)}

(***************************************************************************)
(* The program: a schema, written by hand or produced by a builder, is    *)
(* validated, lazily and fail-fast; a schema that passed is used to        *)
(* convert a document, lazily and fail-fast; a document converted without  *)
(* error is encoded and converted once more.                               *)
(***************************************************************************)
NotBuilt == [raised |-> NoException, object |-> NoObject]

NotRun == [raised |-> NoException, errors |-> <<>>, warnings |-> <<>>, value |-> PyNone]

Returned(outcome) == outcome.raised = NoException

Init ==
    /\ \/ /\ call = NoCall
          /\ specs \in Schemas
          /\ pc = "start"
       \/ /\ call \in BuilderCalls
          /\ specs = PyNone
          /\ pc = "call"
    /\ builder = NotBuilt
    /\ hashseed \in {0, 1}
    /\ document = PyNone
    /\ vlazy = NotRun
    /\ vfast = NotRun
    /\ dlazy = NotRun
    /\ dfast = NotRun
    /\ again = NotRun

\* builder = Integer(...), String(...), ...: an assert that fails ends the
\* program.
ConstructBuilder ==
    /\ pc = "call"
    /\ builder' = Instantiate(call)
    /\ pc' = IF Instantiate(call).raised = NoException THEN "built" ELSE "rejected"
    /\ UNCHANGED <<call, specs, document, hashseed, vlazy, vfast, dlazy, dfast, again>>

\* specs = builder.to_object()
BuilderToObject ==
    /\ pc = "built"
    /\ specs' = to_object(builder.object)
    /\ pc' = "start"
    /\ UNCHANGED <<call, builder, document, hashseed, vlazy, vfast, dlazy, dfast, again>>

ValidateSpecsLazy ==
    /\ pc = "start"
    /\ vlazy' = validate_specs(specs, TRUE, hashseed)
    /\ pc' = "validated_lazy"
    /\ UNCHANGED <<call, builder, specs, document, hashseed, vfast, dlazy, dfast, again>>

ValidateSpecsFailFast ==
    /\ pc = "validated_lazy"
    /\ vfast' = validate_specs(specs, FALSE, hashseed)
    /\ pc' = "validated"
    /\ UNCHANGED <<call, builder, specs, document, hashseed, vlazy, dlazy, dfast, again>>

\* Only a schema that validate_specs certified reaches the converter.
Certified == Returned(vlazy) /\ vlazy.errors = <<>>

LoadDocument ==
    /\ pc = "validated"
    /\ Certified
    /\ document' \in Documents
    /\ pc' = "loaded"
    /\ UNCHANGED <<call, builder, specs, hashseed, vlazy, vfast, dlazy, dfast, again>>

DocumentToObjectLazy ==
    /\ pc = "loaded"
    /\ dlazy' = document_to_object(document, specs, TRUE, hashseed)
    /\ pc' = "converted_lazy"
    /\ UNCHANGED <<call, builder, specs, document, hashseed, vlazy, vfast, dfast, again>>

DocumentToObjectFailFast ==
    /\ pc = "converted_lazy"
    /\ dfast' = document_to_object(document, specs, FALSE, hashseed)
    /\ pc' = "converted"
    /\ UNCHANGED <<call, builder, specs, document, hashseed, vlazy, vfast, dlazy, again>>

\* document_to_object(json.dumps(adjusted), specs, errors=[]) on the value
\* a conversion without error returned.
ConvertAgain ==
    /\ pc = "converted"
    /\ Returned(dlazy)
    /\ dlazy.errors = <<>>
    /\ again' = document_to_object(JsonValue(dlazy.value), specs, TRUE, hashseed)
    /\ pc' = "again"
    /\ UNCHANGED <<call, builder, specs, document, hashseed, vlazy, vfast, dlazy, dfast>>

Next ==
    \/ ConstructBuilder
    \/ BuilderToObject
    \/ ValidateSpecsLazy
    \/ ValidateSpecsFailFast
    \/ LoadDocument
    \/ DocumentToObjectLazy
    \/ DocumentToObjectFailFast
    \/ ConvertAgain

Spec == Init /\ [][Next]_vars

(***************************************************************************)
(* Properties                                                              *)
(***************************************************************************)
HasSpecs == pc \notin {"call", "built", "rejected"}
ValidatedLazy == HasSpecs /\ pc # "start"
ValidatedBoth == ValidatedLazy /\ pc # "validated_lazy"
ConvertedLazy == pc \in {"converted_lazy", "converted", "again"}
ConvertedBoth == pc \in {"converted", "again"}

Kind(block) == Item(block, "type").s

\* C1: fail-fast validate_specs raises exactly when lazy validate_specs
\* leaves an error in the list, and what it raises is the first error of
\* that list.
C1_FailFastRaisesFirstLazyError ==
    ValidatedBoth =>
        /\ ~Returned(vfast) <=> vlazy.errors # <<>>
        /\ ~Returned(vfast) => (vlazy.errors # <<>> /\ vfast.raised = vlazy.errors[1])

\* C2: lazy document_to_object never raises a violation of the schema: a
\* violation is appended to the errors list and the call returns.
C2_LazyConversionRaisesNoViolation ==
    ConvertedLazy => dlazy.raised.cls # "ValidationError"

\* C3: on a document for which lazy mode stores an error, fail-fast
\* document_to_object raises the error lazy mode stores first.
C3_FailFastRaisesFirstViolation ==
    (ConvertedBoth /\ dlazy.errors # <<>>) => dfast.raised = dlazy.errors[1]

\* C4: lazy validate_specs returns for every schema value: it raises nothing.
C4_LazyValidationNeverRaises ==
    ValidatedLazy => Returned(vlazy)

\* C5: with a schema validate_specs accepted, lazy document_to_object ends
\* by returning or by raising a validation diagnostic, never by another
\* exception.
C5_AcceptedSchemaIsInterpretable ==
    (ConvertedLazy /\ Certified) => dlazy.raised.cls \in {"", "ValidationError", "ValueError"}

\* The block is marked option: true.
Optional(block) == Truthy(GetOr(block, "option", PyBool(FALSE)))

\* C6: a map document that lacks a field the schema declares without
\* option: true has an error at that field's path.
C6_MissingRequiredFieldIsAnError ==
    (ConvertedLazy /\ Kind(specs) = "map" /\ document.t = "dict" /\ Returned(dlazy)) =>
        \A i \in 1..Len(Item(specs, "fields").kv) :
            LET key == Item(specs, "fields").kv[i][1]
                block == Item(specs, "fields").kv[i][2]
            IN (~Has(document, key) /\ ~Optional(block)) =>
                   \E j \in 1..Len(dlazy.errors) : dlazy.errors[j].path = "root." \o key

\* C7: the adjusted value of a conversion without error, encoded as JSON and
\* converted again against the same schema, gives no error and the same
\* adjusted value.
C7_ConversionIsIdempotent ==
    pc = "again" => (Returned(again) /\ again.errors = <<>> /\ again.value = dlazy.value)

\* What the schema declares of a bound: its value, and whether it is strict.
BoundValue(bound) == IF bound.t = "dict" THEN Item(bound, "value") ELSE bound

ExclusiveBound(bound) == bound.t = "dict" /\ Get(bound, "exclusive") = PyBool(TRUE)

WithinBounds(v, block) ==
    /\ Has(block, "minimum") =>
           LET m == Item(block, "minimum") IN
           IF ExclusiveBound(m) THEN Halves(v) > Halves(BoundValue(m))
           ELSE Halves(v) >= Halves(BoundValue(m))
    /\ Has(block, "maximum") =>
           LET m == Item(block, "maximum") IN
           IF ExclusiveBound(m) THEN Halves(v) < Halves(BoundValue(m))
           ELSE Halves(v) <= Halves(BoundValue(m))

\* C8: process_integer_node accepts a number exactly when the number is
\* within the declared bounds, an exclusive bound being strict and an
\* inclusive or bare bound (0 included) not; it rejects every value that is
\* not a number with an error.
\* What document_to_object records agrees with it (a null document at an
\* optional node never reaches process_integer_node).
C8_IntegerBounds ==
    (ConvertedLazy /\ Kind(specs) = "integer") =>
        LET r == process_integer_node("root", document, specs, Empty(hashseed)) IN
        /\ IsNumber(document) => (r.st.errors = <<>> <=> WithinBounds(document, specs))
        /\ ~IsNumber(document) => (Len(r.st.errors) = 1 /\ r.ret = PyNone)
        /\ document # PyNone => dlazy = Outcome(r.st, NoException, r.ret)
        /\ (document = PyNone /\ ~Optional(specs)) => (Returned(dlazy) /\ Len(dlazy.errors) = 1)

\* An integer with an exclusive minimum and a maximum of 0, and a document
\* equal to the minimum, which is rejected.
C8_Witness ==
    /\ ConvertedLazy
    /\ Kind(specs) = "integer"
    /\ Has(specs, "minimum")
    /\ ExclusiveBound(Item(specs, "minimum"))
    /\ Has(specs, "maximum")
    /\ BoundValue(Item(specs, "maximum")) = PyInt(0)
    /\ document = BoundValue(Item(specs, "minimum"))
    /\ Len(dlazy.errors) = 1

\* The messages of the length errors, and the length rule of the schema.
LengthMessages(what) ==
    {"length of " \o what \o " must be equal to X",
     "length of " \o what \o " must be greater or equal to X",
     "length of " \o what \o " must be lower or equal to X"}

LengthFits(size, length) ==
    IF length.t = "int" THEN size = length.i
    ELSE /\ Has(length, "minimum") => 2 * size >= Halves(Item(length, "minimum"))
         /\ Has(length, "maximum") => 2 * size <= Halves(Item(length, "maximum"))

SizeOf(node) == IF node.t = "str" THEN Len(node.s) ELSE Len(node.items)

\* C9: a string or list whose schema declares a length (a bare length, or a
\* minimum and a maximum, each optional and inclusive) is accepted exactly
\* when its length fits; a length that does not fit records exactly one
\* length error at the node's path and the node contributes no value.
C9_LengthBounds ==
    (/\ ConvertedLazy
     /\ Kind(specs) \in {"string", "list"}
     /\ Has(specs, "length")
     /\ Item(specs, "length").t \in {"int", "dict"}
     /\ document.t = (IF Kind(specs) = "string" THEN "str" ELSE "list")) =>
        LET lengthErrors == {j \in 1..Len(dlazy.errors) :
                                 dlazy.errors[j].message \in LengthMessages(Kind(specs))}
        IN IF LengthFits(SizeOf(document), Item(specs, "length"))
           THEN lengthErrors = {}
           ELSE /\ Returned(dlazy)
                /\ Len(dlazy.errors) = 1
                /\ dlazy.errors[1].path = "root"
                /\ lengthErrors = {1}
                /\ dlazy.value = PyNone

\* The document without the fields the schema does not declare.
DeclaredOnly(node, fields) ==
    PyDict(SelectSeq(node.kv, LAMBDA pair : Has(fields, pair[1])))

\* C10: for a map schema and a document that is an object, the keys of the
\* adjusted mapping are the declared fields present in the document, and
\* the fields the schema does not declare change nothing: the conversion
\* ends as it does on the document without them.
C10_UndeclaredFieldsDropped ==
    (ConvertedLazy /\ Kind(specs) = "map" /\ document.t = "dict") =>
        /\ Returned(dlazy) =>
               Keys(dlazy.value) = Keys(Item(specs, "fields")) \cap Keys(document)
        /\ dlazy = document_to_object(DeclaredOnly(document, Item(specs, "fields")),
                                      specs, TRUE, hashseed)

\* A document with the declared field x and the undeclared field b, converted
\* without error to a mapping that holds x alone.
C10_Witness ==
    /\ ConvertedLazy
    /\ Kind(specs) = "map"
    /\ document.t = "dict"
    /\ Has(document, "b")
    /\ Has(document, "x")
    /\ Returned(dlazy)
    /\ dlazy.errors = <<>>
    /\ Keys(dlazy.value) = {"x"}

\* The block is a mapping whose 'type' is one of the kinds given.
IsBlockOf(block, kinds) ==
    /\ block.t = "dict"
    /\ Has(block, "type")
    /\ Item(block, "type").t = "str"
    /\ Item(block, "type").s \in kinds

\* The errors list of the outcome holds an error with this path and message.
Reports(outcome, path, message) ==
    \E j \in 1..Len(outcome.errors) :
        outcome.errors[j].path = path /\ outcome.errors[j].message = message

\* The errors list holds an "unexpected property" error at the path.
ReportsUnexpected(outcome, path) ==
    \E j \in 1..Len(outcome.errors), k \in {"x", "y"} :
        /\ outcome.errors[j].path = path
        /\ outcome.errors[j].message = "'" \o k \o "' property is unexpected"

\* A bound that resolves to a number: a bare number, or an object of
\* 'exclusive' and 'value' whose 'value' is a number.
Resolves(bound) ==
    \/ IsNumber(bound)
    \/ /\ bound.t = "dict"
       /\ Keys(bound) \subseteq {"exclusive", "value"}
       /\ Has(bound, "value")
       /\ IsNumber(Item(bound, "value"))

\* What C11 says of the bound of this name, when it is given as an object.
ObjectBoundIsChecked(name) ==
    (Has(specs, name) /\ Item(specs, name).t = "dict") =>
        LET bound == Item(specs, name)
            path == "root." \o name
        IN /\ ~Has(bound, "value") =>
                  \/ Reports(vlazy, path, "'value' property is missing")
                  \/ ReportsUnexpected(vlazy, path)
           /\ (Has(bound, "value") /\ ~IsNumber(Item(bound, "value"))) =>
                  \/ Reports(vlazy, path \o ".value", "value must be a number")
                  \/ ReportsUnexpected(vlazy, path)
           /\ ~(Keys(bound) \subseteq {"exclusive", "value"}) =>
                  ReportsUnexpected(vlazy, path)
           /\ (Has(bound, "exclusive") /\ Item(bound, "exclusive").t # "bool") =>
                  \/ Reports(vlazy, path \o ".exclusive", "value must be a bool")
                  \/ ReportsUnexpected(vlazy, path)

\* C11: for an integer or decimal node, lazy validate_specs reports an error
\* for a minimum or maximum object that has no 'value', whose 'value' is not
\* a number, that has a key other than 'exclusive' and 'value', or whose
\* 'exclusive' is present and not a boolean (0 and "" included); and it
\* reports "minimum must be lower than maximum" when both bounds resolve to
\* numbers and the minimum is the greater.
C11_ObjectBoundsAreChecked ==
    (ValidatedLazy /\ IsBlockOf(specs, {"integer", "decimal"})) =>
        /\ ObjectBoundIsChecked("minimum")
        /\ ObjectBoundIsChecked("maximum")
        /\ (/\ Has(specs, "minimum")
            /\ Has(specs, "maximum")
            /\ Resolves(Item(specs, "minimum"))
            /\ Resolves(Item(specs, "maximum"))
            /\ Halves(BoundValue(Item(specs, "minimum")))
                   > Halves(BoundValue(Item(specs, "maximum")))) =>
               Reports(vlazy, "root", "minimum must be lower than maximum")

\* The keys of a block of a recognized kind that are outside the kind's
\* whitelist, 'type' and 'option'; and the block without them.
ExtraKeys(block) == Keys(block) \ (Whitelist(Kind(block)) \cup {"type", "option"})

WithoutExtraKeys(block) ==
    PyDict(SelectSeq(block.kv, LAMBDA pair : pair[1] \notin ExtraKeys(block)))

\* The positions of the "property is unexpected" errors recorded for the
\* node itself (errors of the same wording for a bound, a length or a nested
\* node carry a longer path).
UnexpectedAt(errors, path, block) ==
    {j \in 1..Len(errors) :
         /\ errors[j].path = path
         /\ \E k \in ExtraKeys(block) :
                errors[j].message = "'" \o k \o "' property is unexpected"}

\* What C12 says of validate_block on one node.
NodeRule(path, block, seed) ==
    LET st == validate_block(path, block, Empty(seed)) IN
    IF IsBlockOf(block, Kinds) THEN
        LET clean == validate_block(path, WithoutExtraKeys(block), Empty(seed))
            unexpected == UnexpectedAt(st.errors, path, block)
        IN /\ Cardinality(unexpected) <= 1
           /\ ExtraKeys(block) # {} => unexpected = {1}
           \* the kind's checker and the 'option' check ran as they do on
           \* the node without the unexpected keys
           /\ st.errors = SubSeq(st.errors, 1, Cardinality(unexpected)) \o clean.errors
           /\ st.warnings = clean.warnings
           /\ st.exc = clean.exc
           /\ (Has(block, "option") /\ Item(block, "option").t # "bool") =>
                  /\ st.errors # <<>>
                  /\ st.errors[Len(st.errors)] =
                         ValidationError(path \o ".option", "value must be a bool")
    ELSE
        /\ ~Raised(st)
        /\ Len(st.errors) = 1
        /\ st.errors[1].path = path
        /\ st.warnings = <<>>

\* C12: validate_block records at most one "property is unexpected" error
\* for a mapping of a recognized kind, however many keys are unexpected, and
\* then runs the kind's checker and the 'option' check; a node that is no
\* mapping, has no 'type' or has an unrecognized 'type' records exactly one
\* error and nothing else.  Stated of the root node, whose outcome is what
\* lazy validate_specs leaves, and of the node under a list's 'value'.
C12_OneUnexpectedErrorThenChecks ==
    (ValidatedLazy /\ specs.t = "dict") =>
        /\ NodeRule("root", specs, hashseed)
        /\ LET st == validate_block("root", specs, Empty(hashseed))
           IN vlazy = Outcome(st, st.exc, PyNone)
        /\ (IsBlockOf(specs, {"list"}) /\ Truthy(Get(specs, "value"))) =>
               NodeRule("root.[]", Item(specs, "value"), hashseed)

\* The strings of the model that are identifiers: they match
\* ^[a-z]+(-[a-z]+)*$ .
Identifiers == {"a", "b", "ab", "abc", "a-b", "x", "y"}

\* The positions of an enum's values that are no identifier, and the
\* positions of an identifier that an earlier position holds already.
Incorrect(values) == {i \in 1..Len(values) : values[i].s \notin Identifiers}

Duplicated(values) ==
    {i \in 1..Len(values) :
         /\ values[i].s \in Identifiers
         /\ \E j \in 1..(i - 1) : values[j] = values[i]}

\* How many errors of the list carry the message.
Count(errors, message) ==
    Cardinality({j \in 1..Len(errors) : errors[j].message = message})

\* C13: for an enum node whose 'values' is a non-empty list of strings, lazy
\* validate_specs records one "is an incorrect value" error for each element
\* that is no identifier, one "value is duplicated" error for each
\* occurrence of an identifier after its first, and no other error; the list
\* of errors is empty exactly when the elements are distinct identifiers.
C13_EnumValuesErrors ==
    (/\ ValidatedLazy
     /\ IsBlockOf(specs, {"enum"})
     /\ Keys(specs) = {"type", "values"}
     /\ Item(specs, "values").t = "list"
     /\ Item(specs, "values").items # <<>>
     /\ \A i \in 1..Len(Item(specs, "values").items) :
            Item(specs, "values").items[i].t = "str") =>
        LET values == Item(specs, "values").items IN
        /\ Returned(vlazy)
        /\ Len(vlazy.errors) = Cardinality(Incorrect(values)) + Cardinality(Duplicated(values))
        /\ \A j \in 1..Len(vlazy.errors) : vlazy.errors[j].path = "root.values"
        /\ \A v \in {values[i] : i \in 1..Len(values)} :
               /\ Count(vlazy.errors, "'" \o v.s \o "' is an incorrect value")
                      = Cardinality({i \in Incorrect(values) : values[i] = v})
               /\ Count(vlazy.errors, "'" \o v.s \o "' value is duplicated")
                      = Cardinality({i \in Duplicated(values) : values[i] = v})
        /\ vlazy.errors = <<>> <=>
               /\ \A i \in 1..Len(values) : values[i].s \in Identifiers
               /\ \A i, j \in 1..Len(values) : i # j => values[i] # values[j]

\* An enum whose values hold a string that is no identifier and the same
\* identifier three times: three errors, two of them for the duplicates.
C13_Witness ==
    /\ ValidatedLazy
    /\ IsBlockOf(specs, {"enum"})
    /\ Get(specs, "values") = PyList(<<PyStr("a"), PyStr("A"), PyStr("a")>>)
    /\ Returned(vlazy)
    /\ Len(vlazy.errors) = 2
    /\ Count(vlazy.errors, "'a' value is duplicated") = 1
    /\ Count(vlazy.errors, "'A' is an incorrect value") = 1

\* C14: when process_integer_node accepts a number, the integer it returns
\* (the number truncated) is itself within the declared minimum and maximum,
\* with their exclusivity.
C14_TruncatedValueWithinBounds ==
    (/\ ConvertedLazy
     /\ Kind(specs) = "integer"
     /\ IsNumber(document)
     /\ Returned(dlazy)
     /\ dlazy.errors = <<>>) =>
        /\ dlazy.value.t = "int"
        /\ WithinBounds(dlazy.value, specs)

\* What C15 says of a min or max passed to Integer: the schema holds it
\* under the name, with the value and the exclusivity passed.
BoundIsKept(bound, name) ==
    bound # PyNone =>
        /\ Has(specs, name)
        /\ IF bound.t = "int"
           THEN Item(specs, name) = bound
           ELSE /\ Item(specs, name).t = "dict"
                /\ Get(Item(specs, name), "value") = bound.items[1]
                /\ Get(Item(specs, name), "exclusive") = bound.items[2]

\* What C15 says of a length passed to String or List: a bare integer is the
\* 'length', each integer of a pair is the 'minimum' or 'maximum' of it.
LengthIsKept(length) ==
    length # PyNone =>
        IF length.t = "int" THEN Has(specs, "length") /\ Item(specs, "length") = length
        ELSE /\ length.items[1] # PyNone =>
                    /\ Has(specs, "length")
                    /\ Item(specs, "length").t = "dict"
                    /\ Get(Item(specs, "length"), "minimum") = length.items[1]
             /\ length.items[2] # PyNone =>
                    /\ Has(specs, "length")
                    /\ Item(specs, "length").t = "dict"
                    /\ Get(Item(specs, "length"), "maximum") = length.items[2]

OptionIsKept(option) == option = PyBool(TRUE) => Get(specs, "option") = PyBool(TRUE)

\* C15: the schema to_object() gives for an Integer, String or List builder
\* holds every bound passed to the constructor (a min, max or length, bare or
\* a pair, 0 included) as the 'minimum', 'maximum' or 'length' of the same
\* value and exclusivity, and 'option': true when option=True was passed.
C15_BuilderKeepsConstraints ==
    (HasSpecs /\ call.cls \in {"Integer", "String", "List"}) =>
        CASE call.cls = "Integer" ->
                 /\ BoundIsKept(call.args[1], "minimum")
                 /\ BoundIsKept(call.args[2], "maximum")
                 /\ OptionIsKept(call.args[3])
          [] call.cls = "String" ->
                 /\ LengthIsKept(call.args[1])
                 /\ OptionIsKept(call.args[3])
          [] call.cls = "List" ->
                 /\ LengthIsKept(call.args[2])
                 /\ OptionIsKept(call.args[3])

====
